---------------------------- MODULE Spec2Model ----------------------------
(***************************************************************************)
(* PDF -> speech conversion: the text extractor and the synthesis          *)
(* orchestrator of src/src/pdf2tts.py, driven by the command line          *)
(* front-end (main) and by the HTTP front-end of src/src/service.py        *)
(* (convert_pdf) with its temporary-directory lifecycle.                   *)
(*                                                                         *)
(* A text is a sequence of runs [c |-> character, n |-> repetitions],      *)
(* n >= 1, adjacent runs holding different characters: the string          *)
(* "aaa  " is <<[c |-> "a", n |-> 3], [c |-> " ", n |-> 2]>>.  This keeps   *)
(* texts of 50000 characters within reach of the model checker while       *)
(* len(), strip() and join() are computed character-exactly.               *)
(***************************************************************************)
EXTENDS Integers, Sequences, FiniteSets, TLC

VARIABLES
    pc,            \* per process: position in its code
    call,          \* per process: arguments of pdf_to_mp3_with_ttsfm
    handle,        \* per process: document handle "none" | "open" | "closed"
    doc,           \* per process: pages of the opened document
    total_pages,   \* per process: doc.page_count
    sp, ep,        \* per process: resolved zero-based half-open page bounds
    idx,           \* per process: loop variable i of range(sp, ep)
    texts,         \* per process: list of page texts collected so far
    full_text,     \* per process: result of extract_text_from_pdf
    engine_calls,  \* per process: requests passed to generate_speech_long_text
    resp,          \* per process: audio returned by the engine
    exc,           \* per process: exception propagating out of the pipeline
    files,         \* filesystem: path -> content, for the paths that exist
    dirs,          \* filesystem: temporary directories that exist
    upload,        \* per request: the multipart upload and form fields
    temp_dir,      \* per request: directory returned by mkdtemp
    background,    \* per request: tasks registered on background_tasks
    http,          \* per request: response handed to the caller
    sent,          \* per request: body chunks passed to send()
    caller,        \* per request: "reading" | "gone" (disconnected)
    log            \* per process: events in the order they happened

pipeVars == <<call, handle, doc, total_pages, sp, ep, idx, texts, full_text,
              engine_calls, resp, exc>>
svcVars  == <<upload, temp_dir, background, http, sent, caller>>
fsVars   == <<files, dirs>>
vars     == <<pc, pipeVars, svcVars, fsVars, log>>

---------------------------------------------------------------------------
(* Bounds of the model *)

MaxPages == 3        \* documents have 0..MaxPages pages
NumChunks == 2       \* body chunks of a streamed audio file

(* Program constants *)

MAX_TEXT_LENGTH == 50000     \* pdf2tts.py:63
BAD_REQUEST     == 400       \* service.py:26,40,55
SERVER_ERROR    == 500       \* service.py:58
OK_STATUS       == 200       \* FileResponse default status

---------------------------------------------------------------------------
(* Optional values: None is <<>>, a present value v is <<v>> *)

None      == <<>>
Some(v)   == <<v>>
IsNone(o) == o = <<>>
Val(o)    == o[1]

(* Python truthiness of an Optional[int]: None and 0 are falsy *)
Truthy(o) == ~IsNone(o) /\ Val(o) # 0

---------------------------------------------------------------------------
(* Texts *)

Run(ch, k) == [c |-> ch, n |-> k]
Str(ch, k) == IF k = 0 THEN <<>> ELSE <<Run(ch, k)>>

Whitespace == {" ", "\n"}

\* a + b on strings
Concat(a, b) ==
    IF a = <<>> THEN b
    ELSE IF b = <<>> THEN a
    ELSE IF a[Len(a)].c = b[1].c
         THEN SubSeq(a, 1, Len(a) - 1)
                \o <<Run(b[1].c, a[Len(a)].n + b[1].n)>>
                \o Tail(b)
         ELSE a \o b

\* len(text)
RECURSIVE TextLen(_)
TextLen(t) == IF t = <<>> THEN 0 ELSE t[1].n + TextLen(Tail(t))

\* text.lstrip(), text.rstrip(), text.strip()
RECURSIVE LStrip(_)
LStrip(t) == IF t = <<>> THEN <<>>
             ELSE IF t[1].c \in Whitespace THEN LStrip(Tail(t))
             ELSE t
RECURSIVE RStrip(_)
RStrip(t) == IF t = <<>> THEN <<>>
             ELSE IF t[Len(t)].c \in Whitespace
                  THEN RStrip(SubSeq(t, 1, Len(t) - 1))
             ELSE t
Strip(t) == RStrip(LStrip(t))

\* sep.join(list)
RECURSIVE Join(_, _)
Join(sep, list) ==
    IF list = <<>> THEN <<>>
    ELSE IF Len(list) = 1 THEN list[1]
    ELSE Concat(Concat(list[1], sep), Join(sep, Tail(list)))

PageSeparator == Str("\n", 2)      \* "\n\n", pdf2tts.py:38


---------------------------------------------------------------------------
(* Processes, paths, file contents, exceptions *)

CLI   == "cli"                  \* the command-line invocation (main)
Reqs  == {"req1"}               \* the /convert requests
ConcReqs == {"req1", "req2"}    \* the /convert requests in flight together
Procs == ConcReqs \cup {CLI}

FileName(stem, suffix) == [stem |-> stem, suffix |-> suffix]
PathOf(dir, name)      == <<dir, name>>
DirOf(path)            == path[1]
NameOf(path)           == path[2]

PdfFile(pages)         == [kind |-> "pdf", pages |-> pages]
JunkFile               == [kind |-> "junk"]
AudioFile(text, whole) == [kind |-> "audio", text |-> text, complete |-> whole]

Exception(type, kind, args) == [type |-> type, kind |-> kind, args |-> args]

\* exception classes a library (parser, engine, filesystem) may raise;
\* "ValueError" stands for ValueError and its subclasses
LibraryExcTypes == {"ValueError", "RuntimeError", "OSError"}

\* members of ttsfm's Voice enum and str.upper() on the voices of the model
VoiceMembers == {"ALLOY", "ECHO", "FABLE", "ONYX", "NOVA", "SHIMMER"}
Upper(voice) == CASE voice = "alloy" -> "ALLOY"
                  [] voice = "Nova"  -> "NOVA"
                  [] voice = "robot" -> "ROBOT"

Event(r, e) == [log EXCEPT ![r] = Append(@, e)]

WriteFile(path, content) ==
    [p \in DOMAIN files \cup {path} |-> IF p = path THEN content ELSE files[p]]

---------------------------------------------------------------------------
(* extract_text_from_pdf, pdf2tts.py:16-38 *)

\* a variant of ResolveSp that forgets the conversion to a zero-based index
ResolveSpOneBased(start_page) == IF Truthy(start_page) THEN Val(start_page) ELSE 0

\* sp = start_page - 1 if start_page else 0
ResolveSp(start_page) == IF Truthy(start_page) THEN Val(start_page) - 1 ELSE 0

\* ep = end_page if end_page else total_pages
ResolveEp(end_page, total) == IF Truthy(end_page) THEN Val(end_page) ELSE total

\* a variant of RangeMessage that interpolates nothing
RangeMessageBare(total, s, e) == <<>>

\* the values interpolated into the message of line 31, each with the name of
\* the expression it comes from
RangeMessage(total, s, e) == <<<<"total_pages", total>>>>

\* the condition of the if on line 29
RangeInvalid(s, e, total) ==
    s < 0 \/ s >= total \/ e < 1 \/ e > total \/ s >= e

Raise(r, e) ==
    /\ exc' = [exc EXCEPT ![r] = Some(e)]
    /\ pc'  = [pc EXCEPT ![r] = "raised"]

\* doc = pymupdf.open(pdf_path)
OpenDocument(r) ==
    /\ pc[r] = "extract"
    /\ LET path == call[r].pdf_path IN
       IF path \in DOMAIN files /\ files[path].kind = "pdf"
       THEN /\ handle' = [handle EXCEPT ![r] = "open"]
            /\ doc'    = [doc EXCEPT ![r] = files[path].pages]
            /\ pc'     = [pc EXCEPT ![r] = "resolve"]
            /\ log'    = Event(r, "open")
            /\ UNCHANGED exc
       ELSE /\ \E t \in LibraryExcTypes :
                 Raise(r, Exception(t, "DocumentOpen", <<>>))
            /\ log' = Event(r, "open_failed")
            /\ UNCHANGED <<handle, doc>>
    /\ UNCHANGED <<call, total_pages, sp, ep, idx, texts, full_text,
                   engine_calls, resp, svcVars, fsVars>>

\* lines 23-31: resolve and validate the page range
ResolvePageRange(r) ==
    /\ pc[r] = "resolve"
    /\ LET total == Len(doc[r])
           s     == ResolveSp(call[r].start_page)
           e     == ResolveEp(call[r].end_page, total)
       IN  /\ texts'       = [texts EXCEPT ![r] = <<>>]
           /\ total_pages' = [total_pages EXCEPT ![r] = total]
           /\ sp'          = [sp EXCEPT ![r] = s]
           /\ ep'          = [ep EXCEPT ![r] = e]
           /\ IF RangeInvalid(s, e, total)
              THEN /\ handle' = [handle EXCEPT ![r] = "closed"]
                   /\ log'    = Event(r, "close")
                   /\ Raise(r, Exception("ValueError", "InvalidPageRange",
                                         RangeMessage(total, s, e)))
                   /\ UNCHANGED idx
              ELSE /\ idx' = [idx EXCEPT ![r] = s]
                   /\ pc'  = [pc EXCEPT ![r] = "loop"]
                   /\ UNCHANGED <<handle, exc, log>>
    /\ UNCHANGED <<call, doc, full_text, engine_calls, resp, svcVars, fsVars>>

\* lines 33-35, one iteration: page = doc[i]; texts.append(page.get_text("text"))
ReadPage(r) ==
    /\ pc[r] = "loop"
    /\ idx[r] < ep[r]
    /\ IF idx[r] + 1 \in DOMAIN doc[r]
       THEN /\ texts' = [texts EXCEPT ![r] = Append(@, doc[r][idx[r] + 1])]
            /\ idx'   = [idx EXCEPT ![r] = @ + 1]
            /\ log'   = Event(r, "read_page")
            /\ UNCHANGED <<pc, exc>>
       ELSE /\ Raise(r, Exception("IndexError", "PageRead", <<>>))
            /\ log' = Event(r, "read_failed")
            /\ UNCHANGED <<texts, idx>>
    /\ UNCHANGED <<call, handle, doc, total_pages, sp, ep, full_text,
                   engine_calls, resp, svcVars, fsVars>>

\* lines 34-35 raising: the parser cannot load or read page i
ReadPageFails(r) ==
    /\ pc[r] = "loop"
    /\ idx[r] < ep[r]
    /\ \E t \in LibraryExcTypes : Raise(r, Exception(t, "PageRead", <<>>))
    /\ log' = Event(r, "read_failed")
    /\ UNCHANGED <<call, handle, doc, total_pages, sp, ep, idx, texts,
                   full_text, engine_calls, resp, svcVars, fsVars>>

\* a variant of FinishExtract that returns the text without closing the document
FinishExtractNoClose(r) ==
    /\ pc[r] = "loop"
    /\ idx[r] >= ep[r]
    /\ full_text' = [full_text EXCEPT ![r] = Some(Join(PageSeparator, texts[r]))]
    /\ pc'        = [pc EXCEPT ![r] = "validate"]
    /\ UNCHANGED <<call, handle, doc, total_pages, sp, ep, idx, texts,
                   engine_calls, resp, exc, svcVars, fsVars, log>>

\* lines 37-38: doc.close(); return "\n\n".join(texts)
FinishExtract(r) ==
    /\ pc[r] = "loop"
    /\ idx[r] >= ep[r]
    /\ handle'    = [handle EXCEPT ![r] = "closed"]
    /\ full_text' = [full_text EXCEPT ![r] = Some(Join(PageSeparator, texts[r]))]
    /\ pc'        = [pc EXCEPT ![r] = "validate"]
    /\ log'       = Event(r, "close")
    /\ UNCHANGED <<call, doc, total_pages, sp, ep, idx, texts,
                   engine_calls, resp, exc, svcVars, fsVars>>

---------------------------------------------------------------------------
(* pdf_to_mp3_with_ttsfm, pdf2tts.py:41-89 *)

\* a variant of TextError whose length check is >= instead of >
TextErrorInclusive(text) ==
    IF Strip(text) = <<>>
    THEN Some(Exception("ValueError", "EmptyText", <<>>))
    ELSE IF TextLen(text) >= MAX_TEXT_LENGTH
         THEN Some(Exception("ValueError", "TextTooLarge", <<TextLen(text)>>))
         ELSE None

\* a variant of TextError that checks the length before the emptiness
TextErrorLengthFirst(text) ==
    IF TextLen(text) > MAX_TEXT_LENGTH
    THEN Some(Exception("ValueError", "TextTooLarge", <<TextLen(text)>>))
    ELSE IF Strip(text) = <<>>
         THEN Some(Exception("ValueError", "EmptyText", <<>>))
         ELSE None

\* a variant of TextError without the length check
TextErrorNoLimit(text) ==
    IF Strip(text) = <<>>
    THEN Some(Exception("ValueError", "EmptyText", <<>>))
    ELSE None

\* lines 59-67: the two checks on full_text, in the order of the code
TextError(text) ==
    IF Strip(text) = <<>>
    THEN Some(Exception("ValueError", "EmptyText", <<>>))
    ELSE IF TextLen(text) > MAX_TEXT_LENGTH
         THEN Some(Exception("ValueError", "TextTooLarge", <<TextLen(text)>>))
         ELSE None

ValidateText(r) ==
    /\ pc[r] = "validate"
    /\ LET e == TextError(Val(full_text[r])) IN
       IF IsNone(e)
       THEN /\ pc' = [pc EXCEPT ![r] = "synthesize"]
            /\ UNCHANGED exc
       ELSE Raise(r, Val(e))
    /\ log' = Event(r, "validate")
    /\ UNCHANGED <<call, handle, doc, total_pages, sp, ep, idx, texts,
                   full_text, engine_calls, resp, svcVars, fsVars>>

\* the arguments of client.generate_speech_long_text, lines 75-83
SynthesisRequest(r) ==
    [text           |-> Val(full_text[r]),
     voice          |-> Upper(call[r].voice),
     preserve_words |-> TRUE,
     auto_combine   |-> TRUE]

\* a variant of CallEngine that calls the engine again after a first failure
CallEngineRetry(r) ==
    /\ pc[r] = "synthesize"
    /\ IF Upper(call[r].voice) \notin VoiceMembers
       THEN /\ Raise(r, Exception("KeyError", "InvalidVoice", <<>>))
            /\ log' = Event(r, "voice_failed")
            /\ UNCHANGED <<engine_calls, resp>>
       ELSE /\ engine_calls' = [engine_calls EXCEPT
                                   ![r] = Append(@, SynthesisRequest(r))]
            /\ log' = Event(r, "engine_call")
            /\ \/ /\ resp' = [resp EXCEPT ![r] = Some(Val(full_text[r]))]
                  /\ pc'   = [pc EXCEPT ![r] = "save"]
                  /\ UNCHANGED exc
               \/ /\ IF engine_calls[r] = <<>>
                     THEN UNCHANGED <<pc, exc>>
                     ELSE \E t \in LibraryExcTypes :
                            Raise(r, Exception(t, "SynthesisEngine", <<>>))
                  /\ UNCHANGED resp
    /\ UNCHANGED <<call, handle, doc, total_pages, sp, ep, idx, texts,
                   full_text, svcVars, fsVars>>

\* lines 75-83: Voice[voice.upper()] and the engine call
CallEngine(r) ==
    /\ pc[r] = "synthesize"
    /\ IF Upper(call[r].voice) \notin VoiceMembers
       THEN /\ Raise(r, Exception("KeyError", "InvalidVoice", <<>>))
            /\ log' = Event(r, "voice_failed")
            /\ UNCHANGED <<engine_calls, resp>>
       ELSE /\ engine_calls' = [engine_calls EXCEPT
                                   ![r] = Append(@, SynthesisRequest(r))]
            /\ log' = Event(r, "engine_call")
            /\ \/ /\ resp' = [resp EXCEPT ![r] = Some(Val(full_text[r]))]
                  /\ pc'   = [pc EXCEPT ![r] = "save"]
                  /\ UNCHANGED exc
               \/ /\ \E t \in LibraryExcTypes :
                       Raise(r, Exception(t, "SynthesisEngine", <<>>))
                  /\ UNCHANGED resp
    /\ UNCHANGED <<call, handle, doc, total_pages, sp, ep, idx, texts,
                   full_text, svcVars, fsVars>>

\* lines 86-87: resp.save_to_file(str(out_path))
SaveToFile(r) ==
    /\ pc[r] = "save"
    /\ files' = WriteFile(call[r].mp3_path, AudioFile(Val(resp[r]), TRUE))
    /\ pc'    = [pc EXCEPT ![r] = "returned"]
    /\ log'   = Event(r, "save")
    /\ UNCHANGED <<pipeVars, svcVars, dirs>>

\* line 87 raising: the write fails before or after part of the audio is on disk
SaveToFileFails(r) ==
    /\ pc[r] = "save"
    /\ \/ UNCHANGED files
       \/ files' = WriteFile(call[r].mp3_path, AudioFile(Val(resp[r]), FALSE))
    /\ \E t \in LibraryExcTypes : Raise(r, Exception(t, "AudioWrite", <<>>))
    /\ log' = Event(r, "save_failed")
    /\ UNCHANGED <<call, handle, doc, total_pages, sp, ep, idx, texts,
                   full_text, engine_calls, resp, svcVars, dirs>>

Pipeline(r) ==
    \/ OpenDocument(r)
    \/ ResolvePageRange(r)
    \/ ReadPage(r)
    \/ ReadPageFails(r)
    \/ FinishExtract(r)
    \/ ValidateText(r)
    \/ CallEngine(r)
    \/ SaveToFile(r)
    \/ SaveToFileFails(r)

---------------------------------------------------------------------------
(* main, pdf2tts.py:92-131 *)

\* page texts of the model: "", 25000 blanks, 24999 x "a", 25000 x "b";
\* "a..a" + "\n\n" + "a..a" has exactly MAX_TEXT_LENGTH characters
HalfLength == MAX_TEXT_LENGTH \div 2 - 1
PageTexts  == {<<>>, Str(" ", HalfLength + 1), Str("a", HalfLength),
               Str("b", HalfLength + 1)}

\* documents of 0..MaxPages pages
Documents == UNION {[1..k -> PageTexts] : k \in 0..MaxPages}

\* values of an optional page number argument
PageArgs == {None} \cup {Some(k) : k \in -1..(MaxPages + 1)}

CliPdfPath == PathOf(".", FileName("book", ".pdf"))

\* Path(pdf_path).with_suffix(".mp3")
WithSuffix(path, suffix) == PathOf(DirOf(path), FileName(NameOf(path).stem, suffix))

\* lines 118-131: parse the arguments and call pdf_to_mp3_with_ttsfm
CliMain ==
    /\ pc[CLI] = "idle"
    /\ \E voice \in {"Nova", "robot"}, start \in PageArgs, end \in PageArgs :
         call' = [call EXCEPT ![CLI] =
                    [pdf_path   |-> CliPdfPath,
                     mp3_path   |-> WithSuffix(CliPdfPath, ".mp3"),
                     voice      |-> voice,
                     start_page |-> start,
                     end_page   |-> end]]
    /\ pc'  = [pc EXCEPT ![CLI] = "extract"]
    /\ log' = Event(CLI, "main")
    /\ UNCHANGED <<handle, doc, total_pages, sp, ep, idx, texts, full_text,
                   engine_calls, resp, exc, svcVars, fsVars>>

\* the process ends: normally, or with the uncaught exception's traceback
CliExit ==
    /\ pc[CLI] \in {"returned", "raised"}
    /\ pc'  = [pc EXCEPT ![CLI] = IF pc[CLI] = "returned" THEN "exit0" ELSE "exit1"]
    /\ log' = Event(CLI, "exit")
    /\ UNCHANGED <<pipeVars, svcVars, fsVars>>

---------------------------------------------------------------------------
(* convert_pdf, service.py:15-66 *)

ContentTypes == {None, Some("application/pdf"),
                 Some("application/octet-stream"), Some("text/plain")}

\* a variant of AcceptedContentTypes that lets every content type through
AcceptedContentTypesLoose == ContentTypes

\* line 25
AcceptedContentTypes ==
    {Some("application/pdf"), Some("application/octet-stream"), None}

UploadNames == {None, Some(FileName("doc", ".pdf")), Some(FileName("doc", ".mp3"))}

UploadBodies ==
    {JunkFile,
     PdfFile(<<Str("a", HalfLength)>>),
     PdfFile(<<Str(" ", HalfLength + 1)>>),
     PdfFile(<<Str("a", HalfLength), Str("b", HalfLength + 1)>>)}

FormPageArgs == {None, Some(0), Some(1), Some(2)}

TempDirNames == {"pdf2tts_x", "pdf2tts_y"}

\* shutil.rmtree(d, ignore_errors=True)
RmTree(d) ==
    /\ dirs'  = dirs \ {d}
    /\ files' = [p \in {q \in DOMAIN files : DirOf(q) # d} |-> files[p]]

\* raise HTTPException(status_code=..., detail=...)
HttpError(status, detail) == Some([status |-> status, detail |-> detail])

\* the request arrives with its upload and form fields, lines 16-24
Receive(r) ==
    /\ pc[r] = "idle"
    /\ \E ct \in ContentTypes, name \in UploadNames, body \in UploadBodies,
          voice \in {"alloy", "robot"},
          start \in FormPageArgs, end \in FormPageArgs :
         upload' = [upload EXCEPT ![r] =
                      Some([content_type |-> ct, filename |-> name, body |-> body,
                            voice |-> voice, start_page |-> start,
                            end_page |-> end])]
    /\ pc'  = [pc EXCEPT ![r] = "check_type"]
    /\ log' = Event(r, "receive")
    /\ UNCHANGED <<pipeVars, temp_dir, background, http, sent, caller, fsVars>>

\* two requests in flight together: PDF uploads under the same file name,
\* each with one of two different one-page documents, default form fields
ConcBodies == {PdfFile(<<Str("a", HalfLength)>>), PdfFile(<<Str("b", HalfLength + 1)>>)}

ReceiveConc(r) ==
    /\ pc[r] = "idle"
    /\ \E body \in ConcBodies :
         upload' = [upload EXCEPT ![r] =
                      Some([content_type |-> Some("application/pdf"),
                            filename |-> Some(FileName("doc", ".pdf")),
                            body |-> body, voice |-> "alloy",
                            start_page |-> None, end_page |-> None])]
    /\ pc'  = [pc EXCEPT ![r] = "check_type"]
    /\ log' = Event(r, "receive")
    /\ UNCHANGED <<pipeVars, temp_dir, background, http, sent, caller, fsVars>>

\* lines 25-26
CheckContentType(r) ==
    /\ pc[r] = "check_type"
    /\ IF Val(upload[r]).content_type \notin AcceptedContentTypes
       THEN /\ http' = [http EXCEPT ![r] = HttpError(BAD_REQUEST, "unsupported")]
            /\ pc'   = [pc EXCEPT ![r] = "done"]
            /\ log'  = Event(r, "respond_error")
       ELSE /\ pc'   = [pc EXCEPT ![r] = "mkdtemp"]
            /\ UNCHANGED <<http, log>>
    /\ UNCHANGED <<pipeVars, upload, temp_dir, background, sent, caller, fsVars>>

\* Path(pdf.filename or "input.pdf").name
StagedName(filename) ==
    IF IsNone(filename) THEN FileName("input", ".pdf") ELSE Val(filename)

\* f"{pdf_path.stem}.mp3"
AudioName(pdf_name) == FileName(pdf_name.stem, ".mp3")

\* a variant of MakeTempDir whose directory name is not guaranteed to be fresh
MakeTempDirShared(r) ==
    /\ pc[r] = "mkdtemp"
    /\ \E d \in TempDirNames :
         /\ dirs'     = dirs \cup {d}
         /\ temp_dir' = [temp_dir EXCEPT ![r] = Some(d)]
         /\ LET pdf_name == StagedName(Val(upload[r]).filename) IN
            call' = [call EXCEPT ![r] =
                       [pdf_path   |-> PathOf(d, pdf_name),
                        mp3_path   |-> PathOf(d, AudioName(pdf_name)),
                        voice      |-> Val(upload[r]).voice,
                        start_page |-> Val(upload[r]).start_page,
                        end_page   |-> Val(upload[r]).end_page]]
    /\ pc'  = [pc EXCEPT ![r] = "read_upload"]
    /\ log' = Event(r, "mkdtemp")
    /\ UNCHANGED <<handle, doc, total_pages, sp, ep, idx, texts, full_text,
                   engine_calls, resp, exc, upload, background, http, sent,
                   caller, files>>

\* lines 28-33: a fresh directory and the two paths inside it
MakeTempDir(r) ==
    /\ pc[r] = "mkdtemp"
    /\ \E d \in TempDirNames \ dirs :
         /\ dirs'     = dirs \cup {d}
         /\ temp_dir' = [temp_dir EXCEPT ![r] = Some(d)]
         /\ LET pdf_name == StagedName(Val(upload[r]).filename) IN
            call' = [call EXCEPT ![r] =
                       [pdf_path   |-> PathOf(d, pdf_name),
                        mp3_path   |-> PathOf(d, AudioName(pdf_name)),
                        voice      |-> Val(upload[r]).voice,
                        start_page |-> Val(upload[r]).start_page,
                        end_page   |-> Val(upload[r]).end_page]]
    /\ pc'  = [pc EXCEPT ![r] = "read_upload"]
    /\ log' = Event(r, "mkdtemp")
    /\ UNCHANGED <<handle, doc, total_pages, sp, ep, idx, texts, full_text,
                   engine_calls, resp, exc, upload, background, http, sent,
                   caller, files>>

\* line 31 raising: mkdtemp cannot create a directory; nothing in convert_pdf
\* catches the error and the framework answers with a server error
MakeTempDirFails(r) ==
    /\ pc[r] = "mkdtemp"
    /\ exc'  = [exc EXCEPT ![r] = Some(Exception("OSError", "MakeTempDir", <<>>))]
    /\ http' = [http EXCEPT ![r] = HttpError(SERVER_ERROR, "Internal Server Error")]
    /\ pc'   = [pc EXCEPT ![r] = "done"]
    /\ log'  = Event(r, "respond_error")
    /\ UNCHANGED <<call, handle, doc, total_pages, sp, ep, idx, texts, full_text,
                   engine_calls, resp, upload, temp_dir, background, sent,
                   caller, fsVars>>

\* a variant of UploadFailed that raises without deleting the directory
UploadFailedLeaks(r) ==
    /\ log'  = [log EXCEPT ![r] = @ \o <<"respond_error">>]
    /\ http' = [http EXCEPT ![r] = HttpError(BAD_REQUEST, "read_failed")]
    /\ pc'   = [pc EXCEPT ![r] = "done"]
    /\ UNCHANGED fsVars

\* lines 38-40: the except block of the upload staging
UploadFailed(r) ==
    /\ RmTree(Val(temp_dir[r]))
    /\ log'  = [log EXCEPT ![r] = @ \o <<"rmtree", "respond_error">>]
    /\ http' = [http EXCEPT ![r] = HttpError(BAD_REQUEST, "read_failed")]
    /\ pc'   = [pc EXCEPT ![r] = "done"]

\* line 36: pdf_bytes = await pdf.read()
ReadUpload(r) ==
    /\ pc[r] = "read_upload"
    /\ pc'  = [pc EXCEPT ![r] = "write_upload"]
    /\ log' = Event(r, "read_upload")
    /\ UNCHANGED <<pipeVars, svcVars, fsVars>>

\* line 36 raising
ReadUploadFails(r) ==
    /\ pc[r] = "read_upload"
    /\ \E t \in LibraryExcTypes :
         exc' = [exc EXCEPT ![r] = Some(Exception(t, "UploadRead", <<>>))]
    /\ UploadFailed(r)
    /\ UNCHANGED <<call, handle, doc, total_pages, sp, ep, idx, texts, full_text,
                   engine_calls, resp, upload, temp_dir, background, sent, caller>>

\* line 37: pdf_path.write_bytes(pdf_bytes), then the call of lines 43-52
WriteUpload(r) ==
    /\ pc[r] = "write_upload"
    /\ files' = WriteFile(call[r].pdf_path, Val(upload[r]).body)
    /\ pc'    = [pc EXCEPT ![r] = "extract"]
    /\ log'   = Event(r, "stage")
    /\ UNCHANGED <<pipeVars, svcVars, dirs>>

\* line 37 raising
WriteUploadFails(r) ==
    /\ pc[r] = "write_upload"
    /\ \E t \in LibraryExcTypes :
         exc' = [exc EXCEPT ![r] = Some(Exception(t, "UploadWrite", <<>>))]
    /\ UploadFailed(r)
    /\ UNCHANGED <<call, handle, doc, total_pages, sp, ep, idx, texts, full_text,
                   engine_calls, resp, upload, temp_dir, background, sent, caller>>

\* the except clause that catches an exception class, lines 53-58
StatusFor(type) == IF type = "ValueError" THEN BAD_REQUEST ELSE SERVER_ERROR

\* detail=str(exc) on line 55, the fixed text on line 58
DetailFor(e) == IF e.type = "ValueError" THEN <<e.kind, e.args>>
                ELSE <<"Failed to generate audio.">>

\* a variant of HandleError that raises without deleting the directory
HandleErrorNoCleanup(r) ==
    /\ pc[r] = "raised"
    /\ log'  = [log EXCEPT ![r] = @ \o <<"respond_error">>]
    /\ http' = [http EXCEPT ![r] =
                  HttpError(StatusFor(Val(exc[r]).type), DetailFor(Val(exc[r])))]
    /\ pc'   = [pc EXCEPT ![r] = "done"]
    /\ UNCHANGED <<pipeVars, upload, temp_dir, background, sent, caller, fsVars>>

\* lines 53-58: delete the directory, then raise the HTTP error
HandleError(r) ==
    /\ pc[r] = "raised"
    /\ RmTree(Val(temp_dir[r]))
    /\ log'  = [log EXCEPT ![r] = @ \o <<"rmtree", "respond_error">>]
    /\ http' = [http EXCEPT ![r] =
                  HttpError(StatusFor(Val(exc[r]).type), DetailFor(Val(exc[r])))]
    /\ pc'   = [pc EXCEPT ![r] = "done"]
    /\ UNCHANGED <<pipeVars, upload, temp_dir, background, sent, caller>>

\* background_tasks.add_task(shutil.rmtree, temp_dir, ignore_errors=True)
AddTask(tasks, d) == Append(tasks, d)

\* a variant of ReturnResponse that deletes the directory on line 60
\* instead of registering the deletion
ReturnResponseEager(r) ==
    /\ pc[r] = "returned"
    /\ RmTree(Val(temp_dir[r]))
    /\ http' = [http EXCEPT ![r] =
                  Some([status |-> OK_STATUS, path |-> call[r].mp3_path,
                        filename |-> AudioName(NameOf(call[r].pdf_path))])]
    /\ pc'   = [pc EXCEPT ![r] = "streaming"]
    /\ log'  = [log EXCEPT ![r] = @ \o <<"rmtree", "stream_start">>]
    /\ UNCHANGED <<pipeVars, upload, temp_dir, background, sent, caller>>

\* a variant of ReturnResponse that registers no deletion
ReturnResponseNoTask(r) ==
    /\ pc[r] = "returned"
    /\ http' = [http EXCEPT ![r] =
                  Some([status |-> OK_STATUS, path |-> call[r].mp3_path,
                        filename |-> AudioName(NameOf(call[r].pdf_path))])]
    /\ pc'   = [pc EXCEPT ![r] = "streaming"]
    /\ log'  = Event(r, "stream_start")
    /\ UNCHANGED <<pipeVars, upload, temp_dir, background, sent, caller, fsVars>>

\* lines 60-66: register the deletion and return the FileResponse
ReturnResponse(r) ==
    /\ pc[r] = "returned"
    /\ background' = [background EXCEPT ![r] = AddTask(@, Val(temp_dir[r]))]
    /\ http' = [http EXCEPT ![r] =
                  Some([status |-> OK_STATUS, path |-> call[r].mp3_path,
                        filename |-> AudioName(NameOf(call[r].pdf_path))])]
    /\ pc'   = [pc EXCEPT ![r] = "streaming"]
    /\ log'  = Event(r, "stream_start")
    /\ UNCHANGED <<pipeVars, upload, temp_dir, sent, caller, fsVars>>

\* FileResponse sends the file at http.path chunk by chunk; after the last
\* chunk the response's background tasks are due
SendChunk(r) ==
    /\ pc[r] = "streaming"
    /\ sent[r] < NumChunks
    /\ IF Val(http[r]).path \in DOMAIN files
       THEN /\ sent' = [sent EXCEPT ![r] = @ + 1]
            /\ IF sent[r] + 1 = NumChunks
               THEN /\ pc'  = [pc EXCEPT ![r] = "background"]
                    /\ log' = Event(r, "stream_end")
               ELSE UNCHANGED <<pc, log>>
       ELSE /\ pc'  = [pc EXCEPT ![r] = "done"]
            /\ log' = Event(r, "stream_failed")
            /\ UNCHANGED sent
    /\ UNCHANGED <<pipeVars, upload, temp_dir, background, http, caller, fsVars>>

\* the caller closes the connection while the body is being sent; send()
\* to a closed connection is a no-op and the response runs to its end
CallerDisconnects(r) ==
    /\ pc[r] = "streaming"
    /\ caller[r] = "reading"
    /\ caller' = [caller EXCEPT ![r] = "gone"]
    /\ UNCHANGED <<pc, pipeVars, upload, temp_dir, background, http, sent,
                   fsVars, log>>

\* the response's background tasks, run in order after the body
RunBackground(r) ==
    /\ pc[r] = "background"
    /\ IF background[r] = <<>>
       THEN /\ pc' = [pc EXCEPT ![r] = "done"]
            /\ UNCHANGED <<background, fsVars, log>>
       ELSE /\ RmTree(Head(background[r]))
            /\ log' = Event(r, "rmtree")
            /\ background' = [background EXCEPT ![r] = Tail(@)]
            /\ UNCHANGED pc
    /\ UNCHANGED <<pipeVars, upload, temp_dir, http, sent, caller>>

Service(r) ==
    \/ Receive(r)
    \/ CheckContentType(r)
    \/ MakeTempDir(r)
    \/ MakeTempDirFails(r)
    \/ ReadUpload(r)
    \/ ReadUploadFails(r)
    \/ WriteUpload(r)
    \/ WriteUploadFails(r)
    \/ HandleError(r)
    \/ ReturnResponse(r)
    \/ SendChunk(r)
    \/ CallerDisconnects(r)
    \/ RunBackground(r)

---------------------------------------------------------------------------
(* Specifications *)

InitProcs ==
    /\ pc           = [r \in Procs |-> "idle"]
    /\ call         = [r \in Procs |-> None]
    /\ handle       = [r \in Procs |-> "none"]
    /\ doc          = [r \in Procs |-> <<>>]
    /\ total_pages  = [r \in Procs |-> 0]
    /\ sp           = [r \in Procs |-> 0]
    /\ ep           = [r \in Procs |-> 0]
    /\ idx          = [r \in Procs |-> 0]
    /\ texts        = [r \in Procs |-> <<>>]
    /\ full_text    = [r \in Procs |-> None]
    /\ engine_calls = [r \in Procs |-> <<>>]
    /\ resp         = [r \in Procs |-> None]
    /\ exc          = [r \in Procs |-> None]
    /\ upload       = [r \in Procs |-> None]
    /\ temp_dir     = [r \in Procs |-> None]
    /\ background   = [r \in Procs |-> <<>>]
    /\ http         = [r \in Procs |-> None]
    /\ sent         = [r \in Procs |-> 0]
    /\ caller       = [r \in Procs |-> "reading"]
    /\ log          = [r \in Procs |-> <<>>]
    /\ dirs         = {}

\* the service starts with no temporary directory on disk
Init ==
    /\ InitProcs
    /\ files = <<>>

Next == \E r \in Reqs : Service(r) \/ Pipeline(r)

Spec == Init /\ [][Next]_vars

\* the command line tool starts with the operator's file on disk: a document,
\* a file that is no PDF, or no file at all
InitCLI ==
    /\ InitProcs
    /\ \/ files = <<>>
       \/ \E content \in {JunkFile} \cup {PdfFile(d) : d \in Documents} :
            files = [p \in {CliPdfPath} |-> content]

NextCLI == CliMain \/ CliExit \/ Pipeline(CLI)

SpecCLI == InitCLI /\ [][NextCLI]_vars

\* two requests whose steps interleave freely
ConcService(r) ==
    \/ ReceiveConc(r)
    \/ CheckContentType(r)
    \/ MakeTempDir(r)
    \/ MakeTempDirFails(r)
    \/ ReadUpload(r)
    \/ ReadUploadFails(r)
    \/ WriteUpload(r)
    \/ WriteUploadFails(r)
    \/ HandleError(r)
    \/ ReturnResponse(r)
    \/ SendChunk(r)
    \/ CallerDisconnects(r)
    \/ RunBackground(r)

NextConc == \E r \in ConcReqs : ConcService(r) \/ Pipeline(r)

SpecConc == Init /\ [][NextConc]_vars

\* the framework awaits the response's background tasks as soon as the body
\* has been sent; whether the body advances depends on the caller
FairSpec == Spec /\ \A r \in Reqs : WF_vars(RunBackground(r))

---------------------------------------------------------------------------
(* Properties of the temporary-directory lifecycle (service.py) *)

Count(seq, e)     == Cardinality({i \in DOMAIN seq : seq[i] = e})
Before(seq, a, b) == \E i, j \in DOMAIN seq : i < j /\ seq[i] = a /\ seq[j] = b

HasDir(r)      == ~IsNone(temp_dir[r])
DirExists(r)   == Val(temp_dir[r]) \in dirs
DirEmptied(r)  == \A p \in DOMAIN files : DirOf(p) # Val(temp_dir[r])
Responded(r)   == ~IsNone(http[r])
Succeeded(r)   == Responded(r) /\ Val(http[r]).status = OK_STATUS
Failed(r)      == Responded(r) /\ Val(http[r]).status # OK_STATUS
Completed(r)   == pc[r] = "done"
Raised(r, kind) == ~IsNone(exc[r]) /\ Val(exc[r]).kind = kind

\* C1, as stated: every completed /convert request has created exactly one
\* temporary directory and deleted it exactly once, and the directory is gone.
C1_EveryRequestOneDirOneDeletion ==
    \A r \in Reqs :
        Completed(r) =>
            /\ Count(log[r], "mkdtemp") = 1
            /\ Count(log[r], "rmtree") = 1
            /\ HasDir(r) /\ ~DirExists(r)

\* C1, amended: a request never creates or deletes more than one directory;
\* every completed request whose content type was accepted and for which
\* mkdtemp succeeded has created exactly one temporary directory and deleted
\* it exactly once, so that the directory and everything in it is gone; a
\* request rejected before that point creates and deletes nothing.
C1_AcceptedRequestOneDirOneDeletion ==
    \A r \in Reqs :
        /\ Count(log[r], "mkdtemp") <= 1
        /\ Count(log[r], "rmtree") <= 1
        /\ (Completed(r) /\ Val(upload[r]).content_type \in AcceptedContentTypes
               /\ ~Raised(r, "MakeTempDir")) =>
               /\ Count(log[r], "mkdtemp") = 1
               /\ Count(log[r], "rmtree") = 1
               /\ HasDir(r) /\ ~DirExists(r) /\ DirEmptied(r)
        /\ (Completed(r) /\ (Val(upload[r]).content_type \notin AcceptedContentTypes
                               \/ Raised(r, "MakeTempDir"))) =>
               /\ Count(log[r], "mkdtemp") = 0
               /\ Count(log[r], "rmtree") = 0
               /\ ~HasDir(r) /\ dirs = {}

C1_Witness ==
    \E r \in Reqs :
        /\ Completed(r) /\ Succeeded(r)
        /\ Count(log[r], "mkdtemp") = 1 /\ Count(log[r], "rmtree") = 1

\* C2: on the success path the directory and the audio file in it exist from
\* the directory's creation until the response stream has ended, and every
\* deletion comes after the end of the stream.
C2_DirOutlivesStream ==
    \A r \in Reqs :
        /\ (HasDir(r) /\ ~Responded(r) /\ Count(log[r], "rmtree") = 0) => DirExists(r)
        /\ Succeeded(r) =>
              IF Count(log[r], "stream_end") = 0
              THEN /\ Count(log[r], "rmtree") = 0
                   /\ DirExists(r)
                   /\ Val(http[r]).path \in DOMAIN files
                   /\ files[Val(http[r]).path].kind = "audio"
              ELSE /\ ~Before(log[r], "rmtree", "stream_end")
                   /\ Count(log[r], "stream_end") = 1

C2_Witness ==
    \E r \in Reqs :
        /\ Succeeded(r) /\ sent[r] = NumChunks
        /\ Before(log[r], "stream_end", "rmtree")
        /\ ~DirExists(r)

\* C3: whenever an error response is returned for a request that had created
\* its temporary directory, the directory has been deleted, and the deletion
\* came before the error response.
C3_ErrorAfterCleanup ==
    \A r \in Reqs :
        (Failed(r) /\ HasDir(r)) =>
            /\ ~DirExists(r) /\ DirEmptied(r)
            /\ Before(log[r], "rmtree", "respond_error")
            /\ ~Before(log[r], "respond_error", "rmtree")

C3_Witness ==
    \E r \in Reqs :
        /\ Failed(r) /\ HasDir(r) /\ ~DirExists(r)
        /\ ~IsNone(exc[r]) /\ Val(exc[r]).kind = "AudioWrite"

---------------------------------------------------------------------------
(* Properties of extract_text_from_pdf and pdf_to_mp3_with_ttsfm, checked  *)
(* on the command-line invocation (SpecCLI)                                *)

\* the characters a..b (1-based, inclusive) of a text
RECURSIVE Slice(_, _, _)
Slice(t, a, b) ==
    IF t = <<>> \/ b < a \/ b < 1 THEN <<>>
    ELSE LET n == t[1].n IN
         IF a > n THEN Slice(Tail(t), a - n, b - n)
         ELSE LET lo == IF a < 1 THEN 1 ELSE a
                  hi == IF b > n THEN n ELSE b
              IN  Concat(Str(t[1].c, hi - lo + 1), Slice(Tail(t), 1, b - n))

\* number of characters before page k in the text of pages s..e joined by a
\* two-character separator
RECURSIVE OffsetOf(_, _, _)
OffsetOf(pages, s, k) ==
    IF k <= s THEN 0
    ELSE OffsetOf(pages, s, k - 1) + TextLen(pages[k - 1]) + 2

\* t is page s, a blank line, page s+1, ..., page e and nothing else
ExactPages(t, pages, s, e) ==
    /\ TextLen(t) = OffsetOf(pages, s, e) + TextLen(pages[e])
    /\ \A k \in s..e :
         LET off == OffsetOf(pages, s, k) IN
         /\ Slice(t, off + 1, off + TextLen(pages[k])) = pages[k]
         /\ k < e => Slice(t, off + TextLen(pages[k]) + 1,
                              off + TextLen(pages[k]) + 2) = Str("\n", 2)

\* the 1-based inclusive range a caller asks for: an absent start is page 1,
\* an absent end is the last page
AskedStart(r) == IF IsNone(call[r].start_page) THEN 1 ELSE Val(call[r].start_page)
AskedEnd(r)   == IF IsNone(call[r].end_page) THEN Len(doc[r])
                 ELSE Val(call[r].end_page)

RangeResolved(r) == handle[r] # "none" /\ pc[r] # "resolve"
Validated(r)     == Count(log[r], "validate") = 1
Blank(t)         == \A i \in DOMAIN t : t[i].c \in Whitespace

\* C5, as stated: a page range with start <= 0, end > T or start > end (a
\* start or end of 0 included) fails with the invalid-page-range error and
\* no page text is extracted.
C5_InvalidRangeRejected ==
    (RangeResolved(CLI)
       /\ (AskedStart(CLI) <= 0 \/ AskedEnd(CLI) > Len(doc[CLI])
             \/ AskedStart(CLI) > AskedEnd(CLI)))
    => (Raised(CLI, "InvalidPageRange") /\ texts[CLI] = <<>>)

\* C6: for a document of T >= 1 pages and start, end absent or in 1..T with
\* start <= end, extraction does not fail with the invalid-page-range error
\* and the text it returns is exactly pages start..end in ascending order
\* with a blank line between consecutive pages.
C6_ExactPagesExtracted ==
    (RangeResolved(CLI)
       /\ Len(doc[CLI]) >= 1
       /\ AskedStart(CLI) \in 1..Len(doc[CLI])
       /\ AskedEnd(CLI) \in 1..Len(doc[CLI])
       /\ AskedStart(CLI) <= AskedEnd(CLI))
    => /\ ~Raised(CLI, "InvalidPageRange")
       /\ ~IsNone(full_text[CLI]) =>
             ExactPages(Val(full_text[CLI]), doc[CLI], AskedStart(CLI), AskedEnd(CLI))

C6_Witness ==
    /\ ~IsNone(full_text[CLI])
    /\ Len(doc[CLI]) = 3
    /\ call[CLI].start_page = Some(2) /\ call[CLI].end_page = Some(3)
    /\ doc[CLI][1] # doc[CLI][2] /\ doc[CLI][2] # doc[CLI][3]
    /\ doc[CLI][2] # <<>> /\ doc[CLI][3] # <<>>
    /\ Val(full_text[CLI]) = doc[CLI][2] \o Str("\n", 2) \o doc[CLI][3]

\* C7, as stated: no execution of the extractor ends with the document
\* handle still open.
C7_HandleReleased ==
    pc[CLI] \in {"exit0", "exit1"} => handle[CLI] # "open"

\* C8, as stated: every extracted text, whitespace-only ones included, is
\* rejected with the text-too-large error iff it has more than 50000
\* characters and is accepted for synthesis otherwise.
C8_TooLargeIffOverLimit ==
    Validated(CLI) =>
        /\ Raised(CLI, "TextTooLarge") <=> TextLen(Val(full_text[CLI])) > MAX_TEXT_LENGTH
        /\ TextLen(Val(full_text[CLI])) <= MAX_TEXT_LENGTH =>
              ~Raised(CLI, "EmptyText")

\* C8, amended: every extracted text that is not blank is rejected with the
\* text-too-large error iff it has more than 50000 characters, and is
\* accepted for synthesis otherwise.
C8_NonBlankTooLargeIffOverLimit ==
    (Validated(CLI) /\ ~Blank(Val(full_text[CLI]))) =>
        /\ Raised(CLI, "TextTooLarge") <=> TextLen(Val(full_text[CLI])) > MAX_TEXT_LENGTH
        /\ TextLen(Val(full_text[CLI])) <= MAX_TEXT_LENGTH =>
              (~Raised(CLI, "EmptyText") /\ pc[CLI] # "validate")

C8_Witness ==
    /\ Validated(CLI)
    /\ TextLen(Val(full_text[CLI])) = MAX_TEXT_LENGTH
    /\ pc[CLI] = "synthesize"

\* C9: a text that is empty or holds only whitespace fails with the
\* empty-text error, whatever its length and the page range, and the
\* synthesis engine is not called.
C9_BlankTextRejected ==
    (Validated(CLI) /\ Blank(Val(full_text[CLI]))) =>
        /\ Raised(CLI, "EmptyText")
        /\ Val(exc[CLI]).type = "ValueError"
        /\ engine_calls[CLI] = <<>>

C9_Witness ==
    /\ Validated(CLI)
    /\ Blank(Val(full_text[CLI]))
    /\ TextLen(Val(full_text[CLI])) > MAX_TEXT_LENGTH
    /\ Raised(CLI, "EmptyText")

---------------------------------------------------------------------------
(* Properties of the error mapping of convert_pdf (Spec) *)

ClientErrorKinds == {"InvalidPageRange", "EmptyText", "TextTooLarge",
                     "UploadRead", "UploadWrite"}
ServerErrorKinds == {"DocumentOpen", "SynthesisEngine", "InvalidVoice", "AudioWrite"}

\* C10, as stated: the status of a failed request depends only on the kind
\* of failure: 400 for an invalid page range, an empty or oversized text and
\* an upload read/write failure; 500 for a document-open, synthesis-engine or
\* audio-write failure, whatever exception class reported it.
C10_StatusByFailureKind ==
    \A r \in Reqs :
        (Failed(r) /\ ~IsNone(exc[r])) =>
            /\ Val(exc[r]).kind \in ClientErrorKinds =>
                  Val(http[r]).status = BAD_REQUEST
            /\ Val(exc[r]).kind \in ServerErrorKinds =>
                  Val(http[r]).status = SERVER_ERROR

---------------------------------------------------------------------------
(* Properties of the content-type check of convert_pdf (Spec) *)

\* C11: a request whose content type is not application/pdf,
\* application/octet-stream or absent is answered with 400 and has touched
\* nothing on the filesystem: no directory created, no file written, nothing
\* deleted; only the three accepted types ever get a temporary directory.
C11_UnsupportedTypeTouchesNothing ==
    \A r \in Reqs :
        (~IsNone(upload[r]) /\ pc[r] # "check_type") =>
            IF Val(upload[r]).content_type \in
                 {None, Some("application/pdf"), Some("application/octet-stream")}
            THEN ~(Failed(r) /\ Val(http[r]).detail = "unsupported")
            ELSE /\ Completed(r) /\ Failed(r)
                 /\ Val(http[r]).status = BAD_REQUEST
                 /\ ~HasDir(r)
                 /\ dirs = {} /\ files = <<>>
                 /\ log[r] = <<"receive", "respond_error">>

C11_Witness ==
    \E r \in Reqs :
        /\ Completed(r) /\ Failed(r)
        /\ Val(upload[r]).content_type = Some("text/plain")
        /\ Val(http[r]).detail = "unsupported"

---------------------------------------------------------------------------
(* Properties of concurrent requests (SpecConc) *)

\* the request has its directory and has not deleted it yet
Holds(r) == HasDir(r) /\ Count(log[r], "rmtree") = 0

\* C12: under every interleaving of two requests' steps, requests that hold
\* a temporary directory hold different ones; a directory exists until its
\* own request deletes it and only held directories and their files exist;
\* the staged upload a request reads and the audio file it streams are its
\* own, also when both uploads have the same file name.
C12_RequestsIsolated ==
    /\ \A r1, r2 \in ConcReqs :
         (r1 # r2 /\ Holds(r1) /\ Holds(r2)) => temp_dir[r1] # temp_dir[r2]
    /\ dirs = {Val(temp_dir[r]) : r \in {q \in ConcReqs : Holds(q)}}
    /\ \A p \in DOMAIN files : DirOf(p) \in dirs
    /\ \A r \in ConcReqs :
         /\ (Holds(r) /\ Count(log[r], "stage") = 1) =>
               /\ call[r].pdf_path \in DOMAIN files
               /\ files[call[r].pdf_path] = Val(upload[r]).body
         /\ handle[r] # "none" => doc[r] = Val(upload[r]).body.pages
         /\ (Holds(r) /\ Count(log[r], "save") = 1) =>
               /\ call[r].mp3_path \in DOMAIN files
               /\ files[call[r].mp3_path] = AudioFile(Val(upload[r]).body.pages[1], TRUE)

C12_Witness ==
    \E r1, r2 \in ConcReqs :
        /\ r1 # r2
        /\ Completed(r1) /\ Succeeded(r1) /\ Count(log[r1], "rmtree") = 1
        /\ Holds(r2) /\ pc[r2] = "streaming"
        /\ Val(upload[r1]).filename = Val(upload[r2]).filename
        /\ Val(upload[r1]).body # Val(upload[r2]).body
        /\ files[call[r2].mp3_path].text = Val(upload[r2]).body.pages[1]

---------------------------------------------------------------------------
(* Properties of the invalid-page-range error (Spec) *)

Carries(args, name, value) ==
    \E i \in DOMAIN args : args[i] = <<name, value>>

\* the detail of an error response made from str(exc) holds the values of
\* the exception's message
DetailCarries(detail, name, value) ==
    Len(detail) = 2 /\ Carries(detail[2], name, value)

\* C13, as stated: the invalid-page-range error carries the document's total
\* page count and the invalid bounds that were requested, and the 400
\* response for it references the total page count.
C13_RangeErrorCarriesTotalAndBounds ==
    \A r \in Reqs :
        Raised(r, "InvalidPageRange") =>
            /\ Carries(Val(exc[r]).args, "total_pages", Len(doc[r]))
            /\ \/ /\ Carries(Val(exc[r]).args, "start_page", call[r].start_page)
                  /\ Carries(Val(exc[r]).args, "end_page", call[r].end_page)
               \/ /\ Carries(Val(exc[r]).args, "sp", sp[r])
                  /\ Carries(Val(exc[r]).args, "ep", ep[r])
            /\ Failed(r) =>
                  /\ Val(http[r]).status = BAD_REQUEST
                  /\ DetailCarries(Val(http[r]).detail, "total_pages", Len(doc[r]))

\* C13, amended: the invalid-page-range error carries the document's total
\* page count (and no bound), and the 400 response for it references the
\* total page count.
C13_RangeErrorCarriesTotal ==
    \A r \in Reqs :
        Raised(r, "InvalidPageRange") =>
            /\ Val(exc[r]).args = <<<<"total_pages", Len(doc[r])>>>>
            /\ Failed(r) =>
                  /\ Val(http[r]).status = BAD_REQUEST
                  /\ DetailCarries(Val(http[r]).detail, "total_pages", Len(doc[r]))

C13_Witness ==
    \E r \in Reqs :
        /\ Raised(r, "InvalidPageRange") /\ Failed(r)
        /\ Len(doc[r]) = 2
        /\ call[r].start_page = Some(2) /\ call[r].end_page = Some(1)
        /\ Val(http[r]).status = BAD_REQUEST

---------------------------------------------------------------------------
(* Properties of the order of the steps of one request (Spec) *)

\* every b in the sequence has an a before it, and no a comes after a b
Precedes(seq, a, b) ==
    /\ \A j \in DOMAIN seq : seq[j] = b => \E i \in 1..(j - 1) : seq[i] = a
    /\ ~Before(seq, b, a)

ExtractionEvents == {"open", "open_failed", "read_page", "read_failed", "close"}

\* C14: within one request the upload is staged before the document is
\* opened, the pages are read and the document is closed before the engine
\* is called, and the engine call and the saving of the audio come before the
\* response stream starts; each of these steps happens at most once and none
\* of them happens again after a later one.
C14_StepsInOrder ==
    \A r \in Reqs :
        /\ Precedes(log[r], "stage", "open")
        /\ Precedes(log[r], "stage", "open_failed")
        /\ Precedes(log[r], "open", "close")
        /\ Precedes(log[r], "close", "validate")
        /\ Precedes(log[r], "validate", "engine_call")
        /\ Precedes(log[r], "engine_call", "save")
        /\ Precedes(log[r], "save", "stream_start")
        /\ \A ev \in {"stage", "open", "close", "engine_call", "save", "stream_start"} :
              Count(log[r], ev) <= 1
        /\ \A ev \in ExtractionEvents : ~Before(log[r], "engine_call", ev)
        /\ engine_calls[r] # <<>> =>
              (handle[r] = "closed" /\ ~IsNone(full_text[r]))
        /\ pc[r] = "streaming" =>
              /\ ~IsNone(resp[r])
              /\ call[r].mp3_path \in DOMAIN files
              /\ files[call[r].mp3_path] = AudioFile(Val(resp[r]), TRUE)

C14_Witness ==
    \E r \in Reqs :
        /\ pc[r] = "streaming"
        /\ Before(log[r], "stage", "open") /\ Before(log[r], "open", "read_page")
        /\ Before(log[r], "read_page", "close") /\ Before(log[r], "close", "engine_call")
        /\ Before(log[r], "engine_call", "save") /\ Before(log[r], "save", "stream_start")

---------------------------------------------------------------------------
(* Properties of the engine call (Spec, SpecCLI) *)

\* C15: a request calls the synthesis engine at most once; after a failed
\* engine call there has been exactly one call, no audio was returned, the
\* exception is on its way to the front-end, and the completed request is
\* answered with an error.
C15_SingleEngineAttempt ==
    \A r \in Reqs :
        /\ Len(engine_calls[r]) <= 1
        /\ Count(log[r], "engine_call") = Len(engine_calls[r])
        /\ Raised(r, "SynthesisEngine") =>
              /\ Len(engine_calls[r]) = 1
              /\ IsNone(resp[r])
              /\ pc[r] \in {"raised", "done"}
              /\ Completed(r) => Failed(r)

C15_Witness ==
    \E r \in Reqs :
        /\ Raised(r, "SynthesisEngine") /\ Completed(r) /\ Failed(r)
        /\ Len(engine_calls[r]) = 1

\* C16: every call of the synthesis engine passes the validated text, which
\* is non-blank and has at most 50000 characters, with preserve_words and
\* auto_combine true; the validation comes before the call; and after a
\* failed validation there is no engine call and no output file.
C16_EngineGetsValidatedText ==
    /\ \A i \in DOMAIN engine_calls[CLI] :
         LET q == engine_calls[CLI][i] IN
         /\ ~Blank(q.text)
         /\ TextLen(q.text) <= MAX_TEXT_LENGTH
         /\ q.text = Val(full_text[CLI])
         /\ q.preserve_words /\ q.auto_combine
    /\ Precedes(log[CLI], "validate", "engine_call")
    /\ (Raised(CLI, "EmptyText") \/ Raised(CLI, "TextTooLarge")) =>
          /\ engine_calls[CLI] = <<>>
          /\ Count(log[CLI], "save") = 0
          /\ call[CLI].mp3_path \notin DOMAIN files

C16_Witness ==
    /\ Len(engine_calls[CLI]) = 1
    /\ TextLen(engine_calls[CLI][1].text) = MAX_TEXT_LENGTH
    /\ pc[CLI] = "exit0"

\* C17, as stated: a conversion ends either in success with the audio file
\* fully written, or in an error with no audio file of that conversion left
\* behind, also when the audio write fails part-way.
C17_NoPartialOutcome ==
    /\ pc[CLI] = "exit0" =>
          /\ call[CLI].mp3_path \in DOMAIN files
          /\ files[call[CLI].mp3_path] = AudioFile(Val(resp[CLI]), TRUE)
    /\ pc[CLI] = "exit1" => call[CLI].mp3_path \notin DOMAIN files

\* C18, as stated: for every accepted upload file name, names ending in
\* .mp3 and an absent name included, the staged input path and the audio
\* output path are two distinct paths inside the request's temporary
\* directory, and the staged upload is still in place after the audio is saved.
C18_StagedAndAudioPathsDistinct ==
    \A r \in Reqs :
        HasDir(r) =>
            /\ DirOf(call[r].pdf_path) = Val(temp_dir[r])
            /\ DirOf(call[r].mp3_path) = Val(temp_dir[r])
            /\ call[r].pdf_path # call[r].mp3_path
            /\ pc[r] = "returned" =>
                  /\ call[r].pdf_path \in DOMAIN files
                  /\ files[call[r].pdf_path] = Val(upload[r]).body

============================================================================
